---- MODULE Spec2Model ----
(***************************************************************************)
(* A model of vcache (src/vcache/__init__.py): the tagged-byte codec, the  *)
(* local tier adapter with its TTL stamp, the remote tier port, and the    *)
(* Cache operations set / get / delete / once / stats, run by threads      *)
(* that interleave at every access to shared state (the local store, the   *)
(* remote store, the RLock, the hits and misses counters).                 *)
(*                                                                         *)
(* A Python value is a record [t |-> type name, v |-> payload], the        *)
(* payload a sequence of integers: the bytes of a bytes object, the code   *)
(* points of a str, the elements of a tuple or list, <<n>> for an int or   *)
(* bool, the attribute of a Foo object.                                    *)
(***************************************************************************)
EXTENDS Integers, Sequences, FiniteSets, TLC

\* ------------------------------------------------------------------ values

None == [t |-> "none", v |-> <<>>]
PyBytes(b) == [t |-> "bytes", v |-> b]
PyStr(s) == [t |-> "str", v |-> s]
PyInt(n) == [t |-> "int", v |-> <<n>>]
PyTrue == [t |-> "bool", v |-> <<1>>]
PyFalse == [t |-> "bool", v |-> <<0>>]
PyTuple(s) == [t |-> "tuple", v |-> s]
PyList(s) == [t |-> "list", v |-> s]
PyFoo(n) == [t |-> "obj", v |-> <<n>>]

\* An outcome of a call: the exception it raised ("" for none) and what it
\* returned.
Ret(x) == [exc |-> "", val |-> x]
Raise(e) == [exc |-> e, val |-> None]

\* Python truthiness, as `if x:` and `not x` test it.
Truthy(x) ==
    CASE x.t = "none" -> FALSE
      [] x.t \in {"int", "bool"} -> x.v # <<0>>
      [] x.t \in {"bytes", "str", "tuple", "list"} -> x.v # <<>>
      [] OTHER -> TRUE

\* ---------------------------------------------------------------- constants

COMPRESSION_THRESHOLD == 64
ONE_MINUTE == 60
ONE_HOUR == ONE_MINUTE * 60
NO_COMPRESSION == 0
ZLIB_COMPRESSION == 1
BYTES_SUFFIX == 0
STR_SUFFIX == 1
OTHER_SUFFIX == 2
\* timedelta.seconds is the seconds part of a (days, seconds) pair.
SECONDS_PER_DAY == 86400

\* ------------------------------------------------------------------- utf-8

IsCont(x) == x >= 128 /\ x <= 191

\* An encoder of one byte per code point.
latin1_cp(c) == <<c % 256>>

utf8_cp(c) ==
    IF c < 128 THEN <<c>>
    ELSE IF c < 2048 THEN <<192 + (c \div 64), 128 + (c % 64)>>
    ELSE IF c < 65536
         THEN <<224 + (c \div 4096), 128 + ((c \div 64) % 64), 128 + (c % 64)>>
    ELSE <<240 + (c \div 262144), 128 + ((c \div 4096) % 64),
           128 + ((c \div 64) % 64), 128 + (c % 64)>>

RECURSIVE utf8_encode(_)
utf8_encode(s) == IF s = <<>> THEN <<>> ELSE utf8_cp(Head(s)) \o utf8_encode(Tail(s))

\* The strict decoder of bytes.decode("utf-8"): [ok, v], failing on a bad
\* start byte, a missing continuation byte, an overlong form or a surrogate.
RECURSIVE utf8_decode(_)
utf8_decode(b) ==
    IF b = <<>> THEN [ok |-> TRUE, v |-> <<>>]
    ELSE
      LET b1 == b[1]
          n == IF b1 < 128 THEN 1
               ELSE IF b1 >= 194 /\ b1 <= 223 THEN 2
               ELSE IF b1 >= 224 /\ b1 <= 239 THEN 3
               ELSE IF b1 >= 240 /\ b1 <= 244 THEN 4
               ELSE 0
      IN IF n = 0 \/ Len(b) < n \/ \E i \in 2..n : ~IsCont(b[i])
         THEN [ok |-> FALSE, v |-> <<>>]
         ELSE
           LET cp == CASE n = 1 -> b1
                       [] n = 2 -> (b1 - 192) * 64 + (b[2] - 128)
                       [] n = 3 -> (b1 - 224) * 4096 + (b[2] - 128) * 64 + (b[3] - 128)
                       [] n = 4 -> (b1 - 240) * 262144 + (b[2] - 128) * 4096
                                   + (b[3] - 128) * 64 + (b[4] - 128)
               bad == \/ (n = 3 /\ cp < 2048)
                      \/ (n = 3 /\ cp >= 55296 /\ cp <= 57343)
                      \/ (n = 4 /\ (cp < 65536 \/ cp > 1114111))
               rest == utf8_decode(SubSeq(b, n + 1, Len(b)))
           IN IF bad \/ ~rest.ok THEN [ok |-> FALSE, v |-> <<>>]
              ELSE [ok |-> TRUE, v |-> <<cp>> \o rest.v]

\* ------------------------------------------------------------------ pickle
\* pickle.dumps / pickle.loads on the value shapes of the model, with the
\* opcodes of protocol 4: PROTO 4 (128 4), BININT1 (75 n), NEWTRUE (136),
\* NEWFALSE (137), EMPTY_TUPLE (41), TUPLE1..TUPLE3 (133..135), MEMOIZE (148),
\* EMPTY_LIST (93), MARK (40), APPENDS (101), STOP (46); an object is GLOBAL
\* (99), its attribute, BUILD (98).

RECURSIVE PickleInts(_)
PickleInts(s) == IF s = <<>> THEN <<>> ELSE <<75, Head(s)>> \o PickleInts(Tail(s))

pickle_dumps(x) ==
    <<128, 4>> \o
    ( CASE x.t = "int" -> <<75, x.v[1]>>
        [] x.t = "bool" -> IF x.v = <<1>> THEN <<136>> ELSE <<137>>
        [] x.t = "tuple" -> IF x.v = <<>> THEN <<41>>
                            ELSE PickleInts(x.v) \o <<132 + Len(x.v), 148>>
        [] x.t = "list" -> IF x.v = <<>> THEN <<93, 148>>
                           ELSE <<93, 148, 40>> \o PickleInts(x.v) \o <<101>>
        [] x.t = "obj" -> <<99>> \o PickleInts(x.v) \o <<98>>
        [] OTHER -> <<78>> )
    \o <<46>>

RECURSIVE UnpickleInts(_)
UnpickleInts(b) ==
    IF b = <<>> THEN [ok |-> TRUE, v |-> <<>>]
    ELSE IF Len(b) < 2 \/ b[1] # 75 THEN [ok |-> FALSE, v |-> <<>>]
    ELSE LET rest == UnpickleInts(SubSeq(b, 3, Len(b)))
         IN IF rest.ok THEN [ok |-> TRUE, v |-> <<b[2]>> \o rest.v]
            ELSE [ok |-> FALSE, v |-> <<>>]

pickle_loads(b) ==
    IF Len(b) < 3 \/ b[1] # 128 \/ b[2] # 4 \/ b[Len(b)] # 46
    THEN Raise("UnpicklingError")
    ELSE
      LET body == SubSeq(b, 3, Len(b) - 1)
          n == Len(body)
          inner(i, j) == UnpickleInts(SubSeq(body, i, j))
      IN CASE body = <<78>> -> Ret(None)
           [] body = <<136>> -> Ret(PyTrue)
           [] body = <<137>> -> Ret(PyFalse)
           [] body = <<41>> -> Ret(PyTuple(<<>>))
           [] body = <<93, 148>> -> Ret(PyList(<<>>))
           [] n = 2 /\ body[1] = 75 -> Ret(PyInt(body[2]))
           [] n >= 4 /\ body[n] = 148 /\ body[n - 1] \in 133..135
              /\ inner(1, n - 2).ok /\ Len(inner(1, n - 2).v) = body[n - 1] - 132
                -> Ret(PyTuple(inner(1, n - 2).v))
           [] n >= 6 /\ SubSeq(body, 1, 3) = <<93, 148, 40>> /\ body[n] = 101
              /\ inner(4, n - 1).ok
                -> Ret(PyList(inner(4, n - 1).v))
           [] n = 4 /\ body[1] = 99 /\ body[n] = 98 /\ inner(2, n - 1).ok
                -> Ret(PyFoo(inner(2, n - 1).v[1]))
           [] OTHER -> Raise("UnpicklingError")

\* -------------------------------------------------------------------- zlib
\* zlib.compress / zlib.decompress as a zlib stream of one stored block:
\* the header (120 156), the block's length, the data, a checksum of it.

RECURSIVE SumOf(_)
SumOf(b) == IF b = <<>> THEN 0 ELSE Head(b) + SumOf(Tail(b))

Checksum(b) == (1 + SumOf(b)) % 251

zlib_compress(b) ==
    <<120, 156, Len(b) % 256, Len(b) \div 256>> \o b \o <<Checksum(b)>>

zlib_decompress(b) ==
    IF Len(b) < 5 \/ b[1] # 120 \/ b[2] # 156 THEN Raise("zlib.error")
    ELSE LET data == SubSeq(b, 5, Len(b) - 1)
         IN IF Len(data) # b[3] + 256 * b[4] \/ b[Len(b)] # Checksum(data)
            THEN Raise("zlib.error")
            ELSE Ret(PyBytes(data))

\* ------------------------------------------------------------------- codec

marshal(value) ==
    IF value.t = "none" THEN None
    ELSE IF value.t = "bytes" THEN PyBytes(value.v \o <<BYTES_SUFFIX>>)
    ELSE IF value.t = "str" THEN PyBytes(utf8_encode(value.v) \o <<STR_SUFFIX>>)
    ELSE LET b == pickle_dumps(value)
         IN IF Len(b) < COMPRESSION_THRESHOLD
            THEN PyBytes(b \o <<NO_COMPRESSION>> \o <<OTHER_SUFFIX>>)
            ELSE PyBytes(zlib_compress(b) \o <<ZLIB_COMPRESSION>> \o <<OTHER_SUFFIX>>)

\* unmarshal(b): b is None, a bytes object, or (from once, which hands it
\* what set returned) a bool, on which len() raises TypeError.
unmarshal(x) ==
    IF x.t = "none" THEN Ret(None)
    ELSE IF x.t # "bytes" THEN Raise("TypeError")
    ELSE IF Len(x.v) = 0 THEN Ret(None)
    ELSE
      LET type_suffix == x.v[Len(x.v)]
          b == SubSeq(x.v, 1, Len(x.v) - 1)
      IN IF type_suffix = BYTES_SUFFIX THEN Ret(PyBytes(b))
         ELSE IF type_suffix = STR_SUFFIX
              THEN LET d == utf8_decode(b)
                   IN IF d.ok THEN Ret(PyStr(d.v)) ELSE Raise("UnicodeDecodeError")
         ELSE IF Len(b) = 0 THEN Ret(None)
         ELSE
           LET compression == b[Len(b)]
               c == SubSeq(b, 1, Len(b) - 1)
           IN IF compression = NO_COMPRESSION THEN pickle_loads(c)
              ELSE IF compression = ZLIB_COMPRESSION
                   THEN LET z == zlib_decompress(c)
                        IN IF z.exc = "" THEN pickle_loads(z.val.v) ELSE z
              ELSE Raise("UnkownCompressionError")

\* ------------------------------------------------------- local-cache stamp

EPOCH == 1577836800

\* int.to_bytes(4, "little", signed=True) and int.from_bytes of it.
to_bytes4(secs) ==
    LET low == IF secs >= 0 THEN secs ELSE secs + 2147483647 + 1
        top == IF secs >= 0 THEN 0 ELSE 128
    IN <<low % 256, (low \div 256) % 256, (low \div 65536) % 256,
         (low \div 16777216) + top>>

from_bytes4(b) ==
    LET low == b[1] + 256 * b[2] + 65536 * b[3] + 16777216 * (b[4] % 128)
    IN IF b[4] >= 128 THEN low - 2147483647 - 1 ELSE low

\* dt is a datetime, held as its timestamp in seconds.
encode_time(dt) == to_bytes4(dt - EPOCH)
decode_time(b) == EPOCH + from_bytes4(b)

\* (now - dt).seconds: the seconds field of the timedelta, its days dropped.
timedelta_seconds(d) == d % SECONDS_PER_DAY

\* ------------------------------------------------------------ configuration

Keys == {"k"}

\* Option.__init__: the local cache given or a new one, the ttl normalised.
Option(redis, local_cache_ttl, stats_enabled) ==
    [redis |-> redis,
     local_cache |-> TRUE,
     local_cache_ttl |-> IF local_cache_ttl < 0 THEN 0
                         ELSE IF local_cache_ttl = 0 THEN ONE_MINUTE
                         ELSE local_cache_ttl,
     stats_enabled |-> stats_enabled]

\* The local_cache_ttl arguments tried: negative, the default 0, a short one.
LocalTtlArgs == {-1, 0, 2}

\* ---------------------------------------------------------------------- Item

NoDo == [t |-> "nodo", v |-> <<>>]

\* Item.__init__ with its defaults; do is the value the producer returns.
Item(key, value) ==
    [key |-> key, value |-> value, ttl |-> ONE_HOUR, do |-> NoDo,
     if_exists |-> FALSE, if_not_exists |-> FALSE, skip_local_cache |-> FALSE]

\* The constructor's check of its value argument.
item_init(value) == IF value = None THEN Raise("ValueError") ELSE Ret(None)

get_value(item) ==
    IF item.do # NoDo THEN item.do
    ELSE IF Truthy(item.value) THEN item.value
    ELSE None

set_value(item, v) == [item EXCEPT !.value = v]

get_ttl(item) ==
    IF item.ttl < 0 THEN 0
    ELSE IF item.ttl < 1 THEN ONE_HOUR
    ELSE item.ttl

\* How many times reading item.value runs the producer.
ProducerRuns(item) == IF item.do # NoDo THEN 1 ELSE 0

\* -------------------------------------------------------------------- state

VARIABLES
    opt,      \* Cache.opt: redis and local_cache (configured or None), ttl, stats
    hits,     \* Cache.hits
    misses,   \* Cache.misses
    local,    \* the local cache collaborator's store: key -> bytes or None
    remote,   \* the remote store: key -> [val: bytes or None, ttl]
    clock,    \* datetime.now(), in seconds
    ticks,    \* how often the clock has advanced
    th,       \* each thread's call in progress
    hist      \* each thread's earlier calls, as they ended, oldest first

vars == <<opt, hits, misses, local, remote, clock, ticks, th, hist>>

Absent == [val |-> None, ttl |-> 0]

\* ------------------------------------------------------- local tier adapter

\* LocalCache.add: stores the pair only if the key is not yet in the store.
cache_add(store, key, b) ==
    IF store[key] = None THEN [store EXCEPT ![key] = b] ELSE store

\* A delete that leaves the store as it is.
cache_keep(store, key) == store

\* LocalCache.delete.
cache_delete(store, key) == [store EXCEPT ![key] = None]

\* local_set: the new store.
local_set(store, key, b, now) ==
    IF opt.local_cache_ttl > 0
    THEN cache_add(store, key, PyBytes(b.v \o encode_time(now)))
    ELSE cache_add(store, key, b)

\* local_get: what it returns or raises, and the store it leaves.
local_get(store, key, now) ==
    LET b == store[key]
    IN IF b = None THEN [out |-> Ret(None), store |-> store]
       ELSE IF Len(b.v) = 0 \/ opt.local_cache_ttl = 0
            THEN [out |-> Ret(b), store |-> store]
       ELSE IF Len(b.v) < 4 THEN [out |-> Raise("Exception"), store |-> store]
       ELSE LET dt == decode_time(SubSeq(b.v, Len(b.v) - 3, Len(b.v)))
            IN IF timedelta_seconds(now - dt) > opt.local_cache_ttl
               THEN [out |-> Ret(None), store |-> cache_delete(store, key)]
               ELSE [out |-> Ret(PyBytes(SubSeq(b.v, 1, Len(b.v) - 4))),
                     store |-> store]

\* ------------------------------------------------------- remote tier port
\* A remote store that keeps what it is given. Each call of a method either
\* works, raises an exception of its own ("error"), or is a method the
\* RedisIface subclass does not implement ("notimpl").

Faults == {"ok", "error", "notimpl"}

set_func(item) ==
    IF item.if_not_exists THEN "setnx" ELSE IF item.if_exists THEN "setxx" ELSE "set"

redis_write(store, func, key, b, expiration) ==
    IF \/ func = "set"
       \/ (func = "setxx" /\ store[key].val # None)
       \/ (func = "setnx" /\ store[key].val = None)
    THEN [store EXCEPT ![key] = [val |-> b, ttl |-> expiration]]
    ELSE store

redis_get(store, key) == store[key].val

\* redis.delete(key): the number of keys removed.
redis_delete_count(store, key) == IF store[key].val = None THEN 0 ELSE 1

redis_delete(store, key) == [store EXCEPT ![key] = Absent]

\* ------------------------------------------------------------------ threads
\* A thread's call: pc is the next access to shared state it makes, op the
\* Cache method the caller invoked (set, get, delete and _get_bytes also run
\* inside once), item the caller's Item and arg that Item as it was passed.
\* b and cached are the locals of once, held whether the thread is inside the
\* `with self._lock` of once, depth how often once has re-entered itself;
\* cnt whether it is inside a `with self._lock` around the counters, and tmp
\* the counter value it has loaded there. The rest is a record of the call:
\* out its outcome, runs the producer's executions, ltouch and rtouch the
\* calls made to the local and the remote collaborator, wrote the tier
\* writes made by set, fault the remote failure met, rvals and rnone the
\* remote gets that returned a value and that returned None or raised,
\* lclock the clock when set wrote, or get or once read, the local tier; l0
\* and r0 whether the key was in the local and in the remote store when the
\* call began, e0 the local store's entry then, h0 and m0 the counters then,
\* t0 the clock then.

NoCall ==
    [pc |-> "done", op |-> "none", item |-> Item("k", None),
     arg |-> Item("k", None), b |-> None,
     cached |-> FALSE, held |-> FALSE, depth |-> 0, out |-> Ret(None),
     runs |-> 0, ltouch |-> 0, rtouch |-> 0, wrote |-> 0, fault |-> "",
     calls |-> 0, l0 |-> FALSE, r0 |-> FALSE, h0 |-> 0, m0 |-> 0, t0 |-> 0,
     cnt |-> FALSE, tmp |-> 0, rvals |-> 0, rnone |-> 0, lclock |-> 0,
     e0 |-> None]

Threads == DOMAIN th

\* The lock let go of by every thread, whoever holds it.
LockIgnored(t) == TRUE

\* The RLock is free for t: no other thread is inside a `with self._lock`.
LockFree(t) == \A u \in Threads : u # t => ~th[u].held /\ ~th[u].cnt

Done(r, out) == [r EXCEPT !.pc = "done", !.out = out]

\* once, after set_get_item_bytes_once has returned (b, cached).
once_decode(r) ==
    IF ~Truthy(r.b) THEN Done(r, Ret(None))
    ELSE LET u == unmarshal(r.b)
         IN IF u.exc = ""
            THEN Done([r EXCEPT !.item = set_value(r.item, u.val)], Ret(None))
            ELSE IF r.cached THEN [r EXCEPT !.pc = "delete"]
            ELSE Done(r, Ret(None))

\* set_get_item_bytes_once leaving `with self._lock`: do_func has returned
\* (b, cached), or raised and the bare except answers (None, False).
once_unlock(r, out, cached) ==
    IF out.exc # ""
    THEN once_decode([r EXCEPT !.b = None, !.cached = FALSE, !.held = FALSE])
    ELSE once_decode([r EXCEPT !.b = out.val, !.cached = cached, !.held = FALSE])

\* set returns or raises: to its caller, or to do_func inside once.
set_return(r, out) ==
    IF r.op = "set" THEN Done(r, out) ELSE once_unlock(r, out, FALSE)

\* _get_bytes returns or raises: to get, which decodes, or to do_func, which
\* on a miss goes on to set(item).
get_bytes_return(r, out) ==
    IF r.op = "get"
    THEN IF out.exc # "" THEN Done(r, out) ELSE Done(r, unmarshal(out.val))
    ELSE IF out.exc = "" /\ out.val = None THEN [r EXCEPT !.pc = "set"]
    ELSE once_unlock(r, out, TRUE)

\* delete returns or raises: to its caller, or to the except clause of once,
\* which then calls once again.
delete_return(r, out) ==
    IF r.op = "delete" \/ out.exc # "" THEN Done(r, out)
    ELSE [r EXCEPT !.pc = "once", !.depth = @ + 1]

\* _get_bytes after a remote hit is counted: the back-fill, or the return.
get_bytes_hit(r) ==
    IF ~r.item.skip_local_cache /\ opt.local_cache
    THEN [r EXCEPT !.pc = "get_fill"]
    ELSE get_bytes_return(r, Ret(r.b))

\* ------------------------------------------------------------------ actions

\* A caller starts a call of op with item (for get and delete: its key and
\* skip_local_cache).
Start(t, op, item) ==
    /\ th[t].pc = "done"
    /\ hist' = [hist EXCEPT ![t] = IF th[t].op = "none" THEN @ ELSE Append(@, th[t])]
    /\ th' = [th EXCEPT ![t] =
                [NoCall EXCEPT !.pc = op, !.op = op, !.item = item, !.arg = item,
                               !.calls = th[t].calls + 1,
                               !.l0 = (local[item.key] # None),
                               !.r0 = (remote[item.key].val # None),
                               !.e0 = local[item.key],
                               !.h0 = hits, !.m0 = misses, !.t0 = clock]]
    /\ UNCHANGED <<opt, hits, misses, local, remote, clock, ticks>>

\* set without its None check.
set_rejects_never(item) == FALSE

\* Cache.set: `if item.value is None: raise ValueError`.
set_rejects(item) == get_value(item) = None

\* set and delete taking a missing remote tier for a local-only cache
\* without looking at the local tier.
no_redis_always_ok == Ret(PyTrue)

\* Cache.set, Cache.delete with no remote tier: the configuration error, or
\* success.
no_redis_result ==
    IF ~opt.local_cache THEN Raise("RedisLocalCacheNoneError") ELSE Ret(PyTrue)

\* _get_bytes with no remote tier: the configuration error, or the miss.
no_redis_miss ==
    IF ~opt.local_cache THEN Raise("RedisLocalCacheNoneError")
    ELSE Raise("CacheMissError")

\* Cache.set up to the remote call: the None check, marshal, local_set.
SetLocal(t) ==
    LET r == th[t]
        b == marshal(get_value(r.item))
    IN /\ r.pc = "set"
       /\ IF set_rejects(r.item)
          THEN /\ th' = [th EXCEPT ![t] =
                           set_return([r EXCEPT !.runs = @ + ProducerRuns(r.item)],
                                      Raise("ValueError"))]
               /\ local' = local
          ELSE LET r1 == [r EXCEPT !.runs = @ + 2 * ProducerRuns(r.item),
                                   !.b = b,
                                   !.lclock = IF opt.local_cache THEN clock ELSE @,
                                   !.ltouch = @ + (IF opt.local_cache THEN 1 ELSE 0),
                                   !.wrote = @ + (IF opt.local_cache THEN 1 ELSE 0)]
               IN /\ local' = IF opt.local_cache
                              THEN local_set(local, r.item.key, b, clock)
                              ELSE local
                  /\ th' = [th EXCEPT ![t] =
                              IF ~opt.redis THEN set_return(r1, no_redis_result)
                              ELSE [r1 EXCEPT !.pc = "set_remote"]]
       /\ UNCHANGED <<opt, hits, misses, remote, clock, ticks, hist>>

\* Cache.set: the remote set / setxx / setnx and its except clauses.
SetRemote(t) ==
    LET r == th[t] IN
    /\ r.pc = "set_remote"
    /\ \E f \in Faults :
         LET r1 == [r EXCEPT !.rtouch = @ + 1,
                             !.fault = IF f = "ok" THEN @ ELSE f,
                             !.wrote = @ + (IF f = "ok" THEN 1 ELSE 0)]
         IN /\ remote' = IF f = "ok"
                         THEN redis_write(remote, set_func(r.item), r.item.key,
                                          r.b, get_ttl(r.item))
                         ELSE remote
            /\ th' = [th EXCEPT ![t] =
                        CASE f = "ok" -> set_return(r1, Ret(PyTrue))
                          [] f = "notimpl" -> set_return(r1, Raise("NotImplementedError"))
                          [] OTHER -> set_return(r1, Raise("RedisIfaceError"))]
    /\ UNCHANGED <<opt, hits, misses, local, clock, ticks, hist>>

\* _get_bytes going on to the remote tier whatever the local tier gave.
local_answers_never(g) == FALSE

\* _get_bytes: `if b is not None: return b` after the local read.
local_answers(g) == g.out.val # None

\* _get_bytes up to the remote call: the local read and the no-remote cases.
GetLocal(t) ==
    LET r == th[t]
        uselocal == ~r.item.skip_local_cache /\ opt.local_cache
        g == local_get(local, r.item.key, clock)
        r1 == [r EXCEPT !.ltouch = @ + (IF uselocal THEN 1 ELSE 0),
                        !.lclock = IF uselocal THEN clock ELSE @]
    IN /\ r.pc = "get"
       /\ local' = IF uselocal THEN g.store ELSE local
       /\ th' = [th EXCEPT ![t] =
                   IF uselocal /\ g.out.exc # "" THEN get_bytes_return(r1, g.out)
                   ELSE IF uselocal /\ local_answers(g) THEN get_bytes_return(r1, g.out)
                   ELSE IF ~opt.redis THEN get_bytes_return(r1, no_redis_miss)
                   ELSE [r1 EXCEPT !.pc = "get_remote"]]
       /\ UNCHANGED <<opt, hits, misses, remote, clock, ticks, hist>>

\* _get_bytes: redis.get(key) and what follows it without the lock.
GetRemote(t) ==
    LET r == th[t] IN
    /\ r.pc = "get_remote"
    /\ \E f \in Faults :
         LET b == redis_get(remote, r.item.key)
             r1 == [r EXCEPT !.rtouch = @ + 1,
                             !.fault = IF f = "ok" THEN @ ELSE f,
                             !.b = IF f = "ok" THEN b ELSE @,
                             !.rvals = @ + (IF f = "ok" /\ b # None THEN 1 ELSE 0),
                             !.rnone = @ + (IF f = "ok" /\ b # None THEN 0 ELSE 1)]
         IN th' = [th EXCEPT ![t] =
                     IF f # "ok"
                     THEN IF opt.stats_enabled THEN [r1 EXCEPT !.pc = "get_failed"]
                          ELSE get_bytes_return(r1, Raise("RedisIfaceError"))
                     ELSE IF b = None THEN [r1 EXCEPT !.pc = "get_miss"]
                     ELSE IF opt.stats_enabled THEN [r1 EXCEPT !.pc = "get_hit"]
                     ELSE get_bytes_hit(r1)]
    /\ UNCHANGED <<opt, hits, misses, local, remote, clock, ticks, hist>>

\* `with self._lock:` around a counter, and the load of `self.x += 1` or of
\* the snapshot: the thread has the lock and the value x of the counter.
lock_and_load(r, x, pc) == [r EXCEPT !.cnt = TRUE, !.tmp = x, !.pc = pc]

\* _get_bytes: `with self._lock: self.misses += 1` of the except clause: the
\* lock taken and misses loaded.
GetFailed(t) ==
    /\ th[t].pc = "get_failed"
    /\ LockFree(t)
    /\ th' = [th EXCEPT ![t] = lock_and_load(th[t], misses, "get_failed_store")]
    /\ UNCHANGED <<opt, hits, misses, local, remote, clock, ticks, hist>>

\* The store of that `self.misses += 1`, the lock let go, and the raise.
GetFailedStore(t) ==
    /\ th[t].pc = "get_failed_store"
    /\ misses' = th[t].tmp + 1
    /\ th' = [th EXCEPT ![t] = get_bytes_return([th[t] EXCEPT !.cnt = FALSE],
                                                Raise("RedisIfaceError"))]
    /\ UNCHANGED <<opt, hits, local, remote, clock, ticks, hist>>

\* _get_bytes: `with self._lock: self.misses += 1` when redis.get gave None:
\* the lock taken and misses loaded.
GetMiss(t) ==
    /\ th[t].pc = "get_miss"
    /\ LockFree(t)
    /\ th' = [th EXCEPT ![t] = lock_and_load(th[t], misses, "get_miss_store")]
    /\ UNCHANGED <<opt, hits, misses, local, remote, clock, ticks, hist>>

\* The store of that `self.misses += 1`, the lock let go, and `return None`.
GetMissStore(t) ==
    /\ th[t].pc = "get_miss_store"
    /\ misses' = th[t].tmp + 1
    /\ th' = [th EXCEPT ![t] = get_bytes_return([th[t] EXCEPT !.cnt = FALSE],
                                                Ret(None))]
    /\ UNCHANGED <<opt, hits, local, remote, clock, ticks, hist>>

\* _get_bytes: `with self._lock: self.hits += 1`: the lock taken and hits
\* loaded.
GetHit(t) ==
    /\ th[t].pc = "get_hit"
    /\ LockFree(t)
    /\ th' = [th EXCEPT ![t] = lock_and_load(th[t], hits, "get_hit_store")]
    /\ UNCHANGED <<opt, hits, misses, local, remote, clock, ticks, hist>>

\* The store of that `self.hits += 1`, and the lock let go.
GetHitStore(t) ==
    /\ th[t].pc = "get_hit_store"
    /\ hits' = th[t].tmp + 1
    /\ th' = [th EXCEPT ![t] = get_bytes_hit([th[t] EXCEPT !.cnt = FALSE])]
    /\ UNCHANGED <<opt, misses, local, remote, clock, ticks, hist>>

\* _get_bytes: the back-fill of the local tier, and the return of the bytes.
GetFill(t) ==
    LET r == th[t] IN
    /\ r.pc = "get_fill"
    /\ local' = local_set(local, r.item.key, r.b, clock)
    /\ th' = [th EXCEPT ![t] =
                get_bytes_return([r EXCEPT !.ltouch = @ + 1], Ret(r.b))]
    /\ UNCHANGED <<opt, hits, misses, remote, clock, ticks, hist>>

\* Cache.delete up to the remote call.
DeleteLocal(t) ==
    LET r == th[t]
        r1 == [r EXCEPT !.ltouch = @ + (IF opt.local_cache THEN 1 ELSE 0)]
    IN /\ r.pc = "delete"
       /\ local' = IF opt.local_cache THEN cache_delete(local, r.item.key) ELSE local
       /\ th' = [th EXCEPT ![t] =
                   IF ~opt.redis THEN delete_return(r1, no_redis_result)
                   ELSE [r1 EXCEPT !.pc = "delete_remote"]]
       /\ UNCHANGED <<opt, hits, misses, remote, clock, ticks, hist>>

\* Cache.delete: redis.delete(key), outside any try, and the count's check.
DeleteRemote(t) ==
    LET r == th[t] IN
    /\ r.pc = "delete_remote"
    /\ \E f \in Faults :
         LET r1 == [r EXCEPT !.rtouch = @ + 1,
                             !.fault = IF f = "ok" THEN @ ELSE f]
         IN /\ remote' = IF f = "ok" THEN redis_delete(remote, r.item.key)
                         ELSE remote
            /\ th' = [th EXCEPT ![t] =
                        CASE f = "notimpl" ->
                               delete_return(r1, Raise("NotImplementedError"))
                          [] f = "error" -> delete_return(r1, Raise("Exception"))
                          [] redis_delete_count(remote, r.item.key) = 0 ->
                               delete_return(r1, Raise("CacheMissError"))
                          [] OTHER -> delete_return(r1, Ret(PyTrue))]
    /\ UNCHANGED <<opt, hits, misses, local, clock, ticks, hist>>

\* once entering set_get_item_bytes_once: with a local tier the local read
\* is its whole answer; without one the thread takes the lock for do_func.
OnceEnter(t) ==
    LET r == th[t]
        g == local_get(local, r.item.key, clock)
    IN /\ r.pc = "once"
       /\ IF opt.local_cache
          THEN /\ local' = g.store
               /\ th' = [th EXCEPT ![t] =
                           IF g.out.exc # ""
                           THEN Done([r EXCEPT !.ltouch = @ + 1,
                                               !.lclock = clock], g.out)
                           ELSE once_decode([r EXCEPT !.ltouch = @ + 1,
                                                      !.lclock = clock,
                                                      !.b = g.out.val,
                                                      !.cached = TRUE])]
          ELSE /\ LockFree(t)
               /\ local' = local
               /\ th' = [th EXCEPT ![t] = [r EXCEPT !.held = TRUE, !.pc = "get"]]
       /\ UNCHANGED <<opt, hits, misses, remote, clock, ticks, hist>>

\* Cache.stats: None, or the lock taken and self.hits read.
Stats(t) ==
    /\ th[t].pc = "stats"
    /\ opt.stats_enabled => LockFree(t)
    /\ th' = [th EXCEPT ![t] =
                IF opt.stats_enabled
                THEN lock_and_load(th[t], hits, "stats_misses")
                ELSE Done(th[t], Ret(None))]
    /\ UNCHANGED <<opt, hits, misses, local, remote, clock, ticks, hist>>

\* Cache.stats: self.misses read, the lock let go, the pair returned.
StatsMisses(t) ==
    /\ th[t].pc = "stats_misses"
    /\ th' = [th EXCEPT ![t] =
                Done([th[t] EXCEPT !.cnt = FALSE],
                     Ret(PyTuple(<<th[t].tmp, misses>>)))]
    /\ UNCHANGED <<opt, hits, misses, local, remote, clock, ticks, hist>>

\* Item(key, value): the constructor alone.
NewItem(t) ==
    /\ th[t].pc = "item"
    /\ th' = [th EXCEPT ![t] = Done(th[t], item_init(th[t].item.value))]
    /\ UNCHANGED <<opt, hits, misses, local, remote, clock, ticks, hist>>

\* cache.marshal(value), called by itself.
Marshal(t) ==
    /\ th[t].pc = "marshal"
    /\ th' = [th EXCEPT ![t] = Done(th[t], Ret(marshal(th[t].item.value)))]
    /\ UNCHANGED <<opt, hits, misses, local, remote, clock, ticks, hist>>

\* cache.unmarshal(b), called by itself; b is held in the item's value.
Unmarshal(t) ==
    /\ th[t].pc = "unmarshal"
    /\ th' = [th EXCEPT ![t] = Done(th[t], unmarshal(th[t].item.value))]
    /\ UNCHANGED <<opt, hits, misses, local, remote, clock, ticks, hist>>

\* ------------------------------------------------------------------- bounds

\* Calls the caller makes under Spec, under SpecSeq, and each thread under
\* SpecConc.
MaxCalls == 2
SeqCalls == 3
ConcCalls == 1
\* Threads under SpecConc.
NThreads == 2
\* Calls each of two threads makes under SpecRetry.
RetryCalls == 2
\* How often the clock advances.
MaxTicks == 1
\* The length of the list whose pickle passes COMPRESSION_THRESHOLD.
BigLen == 30

\* ------------------------------------------------------------------- inputs

V1 == PyStr(<<20013>>)
V2 == PyInt(1)
BigList == PyList([i \in 1..BigLen |-> 1])

\* The values callers cache: text, the integers 0 and 1, empty bytes, a
\* list long enough to be compressed.
Values == {V1, V2, PyInt(0), PyBytes(<<>>), BigList}

\* Items to set: one per value (None: an item whose value was set to None
\* after its construction), and V1's item with each other field changed.
SetItems ==
    {Item(k, v) : k \in Keys, v \in Values \cup {None}}
    \cup {[Item("k", V1) EXCEPT !.ttl = n] : n \in {-1, 0, 5}}
    \cup {[Item("k", V1) EXCEPT !.do = V2],
          [Item("k", V1) EXCEPT !.if_exists = TRUE],
          [Item("k", V1) EXCEPT !.if_not_exists = TRUE],
          [Item("k", V1) EXCEPT !.skip_local_cache = TRUE]}

OnceItems ==
    {Item("k", V1), Item("k", V2),
     [Item("k", V1) EXCEPT !.do = V2],
     [Item("k", V1) EXCEPT !.skip_local_cache = TRUE]}

\* get and delete take a key (and get its skip_local_cache), held in an item.
KeyArg(k, skip) == [Item(k, None) EXCEPT !.skip_local_cache = skip]

Inputs ==
    {[op |-> "set", item |-> i] : i \in SetItems}
    \cup {[op |-> "once", item |-> i] : i \in OnceItems}
    \cup {[op |-> "get", item |-> KeyArg(k, s)] : k \in Keys, s \in BOOLEAN}
    \cup {[op |-> o, item |-> KeyArg(k, FALSE)] : o \in {"delete", "stats"}, k \in Keys}
    \cup {[op |-> "item", item |-> Item(k, v)] : k \in Keys, v \in {V1, None}}

\* Under SpecSeq: default items of two values, and the plain get and delete.
SeqInputs ==
    {[op |-> o, item |-> Item(k, v)] : o \in {"set", "once"}, k \in Keys, v \in {V1, V2}}
    \cup {[op |-> o, item |-> KeyArg(k, FALSE)] : o \in {"get", "delete"}, k \in Keys}

\* Under SpecConc thread t brings its own value, with or without a producer
\* returning another one.
ConcItems(t) ==
    {Item("k", PyInt(t)), [Item("k", PyInt(t)) EXCEPT !.do = PyInt(10 + t)]}

ConcInputs(t) ==
    {[op |-> o, item |-> i] : o \in {"set", "once"}, i \in ConcItems(t)}
    \cup {[op |-> o, item |-> KeyArg("k", FALSE)] : o \in {"get", "delete", "stats"}}

\* What the remote store holds for a key at the start: nothing, or bytes of
\* another writer that do not decode (an unknown compression marker).
Corrupt == PyBytes(<<9, OTHER_SUFFIX>>)
InitRemote == {Absent, [val |-> Corrupt, ttl |-> ONE_HOUR]}

StartClock == EPOCH + 215000000
TickSteps == {1, ONE_MINUTE + 1, SECONDS_PER_DAY}

\* Under SpecRetry: one item to write and to ask for, and the plain get.
RetryInputs ==
    {[op |-> o, item |-> Item("k", V1)] : o \in {"set", "once"}}
    \cup {[op |-> "get", item |-> KeyArg("k", FALSE)]}

\* The values given to marshal: byte strings and texts of up to two
\* elements (texts of 1-, 2-, 3- and 4-byte code points), integers, booleans,
\* tuples, an object, and lists whose pickles lie on both sides of
\* COMPRESSION_THRESHOLD.
CodecByteSet == {0, 1, 2, 255}
CodecCodePoints == {0, 65, 233, 20013, 128512}
ListOf(n) == PyList([i \in 1..n |-> 1])
CodecValues ==
    {PyBytes(<<>>)} \cup {PyBytes(<<x>>) : x \in CodecByteSet}
    \cup {PyBytes(<<x, y>>) : x \in CodecByteSet, y \in CodecByteSet}
    \cup {PyStr(<<>>)} \cup {PyStr(<<x>>) : x \in CodecCodePoints}
    \cup {PyStr(<<x, y>>) : x \in CodecCodePoints, y \in CodecCodePoints}
    \cup {PyInt(0), PyInt(1), PyInt(255), PyTrue, PyFalse, PyFoo(1)}
    \cup {PyTuple(<<>>), PyTuple(<<1>>), PyTuple(<<1, 2>>), PyTuple(<<1, 2, 3>>)}
    \cup {ListOf(n) : n \in {0, 1, BigLen - 2, BigLen - 1, BigLen}}

\* Bytes given to unmarshal that no marshal produced.
ForeignBytes ==
    {None, PyBytes(<<>>), PyBytes(<<OTHER_SUFFIX>>), Corrupt,
     PyBytes(<<255, STR_SUFFIX>>), PyBytes(<<1, NO_COMPRESSION, OTHER_SUFFIX>>),
     PyBytes(<<1, ZLIB_COMPRESSION, OTHER_SUFFIX>>)}

\* -------------------------------------------------------------- specification

\* Cache(opt) over Option(...), the test's `cache.opt.local_cache = None`
\* applied or not; the counters at 0.
InitWith(T) ==
    /\ \E r \in BOOLEAN, l \in BOOLEAN, n \in LocalTtlArgs, s \in BOOLEAN :
         opt = [Option(r, n, s) EXCEPT !.local_cache = l]
    /\ hits = 0
    /\ misses = 0
    /\ local = [k \in Keys |-> None]
    /\ remote \in [Keys -> InitRemote]
    /\ (\E k \in Keys : remote[k] # Absent) => opt.redis
    /\ clock = StartClock
    /\ ticks = 0
    /\ th = [t \in T |-> NoCall]
    /\ hist = [t \in T |-> <<>>]

Tick ==
    /\ ticks < MaxTicks
    /\ \E d \in TickSteps : clock' = clock + d
    /\ ticks' = ticks + 1
    /\ UNCHANGED <<opt, hits, misses, local, remote, th, hist>>

Call ==
    \E t \in Threads :
      /\ th[t].calls < MaxCalls
      /\ \E c \in Inputs : Start(t, c.op, c.item)

CallSeq ==
    \E t \in Threads :
      /\ th[t].calls < SeqCalls
      /\ \E c \in SeqInputs : Start(t, c.op, c.item)

CallConc ==
    \E t \in Threads :
      /\ th[t].calls < ConcCalls
      /\ \E c \in ConcInputs(t) : Start(t, c.op, c.item)

\* One caller, its calls one after another, every input, the clock advancing.
Init == InitWith({1})
Next ==
    \/ Call
    \/ Tick
    \/ \E t \in Threads : SetLocal(t)
    \/ \E t \in Threads : SetRemote(t)
    \/ \E t \in Threads : GetLocal(t)
    \/ \E t \in Threads : GetRemote(t)
    \/ \E t \in Threads : GetFailed(t)
    \/ \E t \in Threads : GetFailedStore(t)
    \/ \E t \in Threads : GetMiss(t)
    \/ \E t \in Threads : GetMissStore(t)
    \/ \E t \in Threads : GetHit(t)
    \/ \E t \in Threads : GetHitStore(t)
    \/ \E t \in Threads : GetFill(t)
    \/ \E t \in Threads : DeleteLocal(t)
    \/ \E t \in Threads : DeleteRemote(t)
    \/ \E t \in Threads : OnceEnter(t)
    \/ \E t \in Threads : Stats(t)
    \/ \E t \in Threads : StatsMisses(t)
    \/ \E t \in Threads : NewItem(t)
Spec == Init /\ [][Next]_vars

\* One caller making more calls, of plain items.
NextSeq ==
    \/ CallSeq
    \/ \E t \in Threads : SetLocal(t)
    \/ \E t \in Threads : SetRemote(t)
    \/ \E t \in Threads : GetLocal(t)
    \/ \E t \in Threads : GetRemote(t)
    \/ \E t \in Threads : GetFailed(t)
    \/ \E t \in Threads : GetFailedStore(t)
    \/ \E t \in Threads : GetMiss(t)
    \/ \E t \in Threads : GetMissStore(t)
    \/ \E t \in Threads : GetHit(t)
    \/ \E t \in Threads : GetHitStore(t)
    \/ \E t \in Threads : GetFill(t)
    \/ \E t \in Threads : DeleteLocal(t)
    \/ \E t \in Threads : DeleteRemote(t)
    \/ \E t \in Threads : OnceEnter(t)
SpecSeq == Init /\ [][NextSeq]_vars

\* NThreads callers at once.
InitConc == InitWith(1..NThreads)
NextConc ==
    \/ CallConc
    \/ \E t \in Threads : SetLocal(t)
    \/ \E t \in Threads : SetRemote(t)
    \/ \E t \in Threads : GetLocal(t)
    \/ \E t \in Threads : GetRemote(t)
    \/ \E t \in Threads : GetFailed(t)
    \/ \E t \in Threads : GetFailedStore(t)
    \/ \E t \in Threads : GetMiss(t)
    \/ \E t \in Threads : GetMissStore(t)
    \/ \E t \in Threads : GetHit(t)
    \/ \E t \in Threads : GetHitStore(t)
    \/ \E t \in Threads : GetFill(t)
    \/ \E t \in Threads : DeleteLocal(t)
    \/ \E t \in Threads : DeleteRemote(t)
    \/ \E t \in Threads : OnceEnter(t)
    \/ \E t \in Threads : Stats(t)
    \/ \E t \in Threads : StatsMisses(t)
SpecConc == InitConc /\ [][NextConc]_vars

\* The codec alone, on a default cache: marshal of a value, then unmarshal of
\* what marshal returned or of foreign bytes.
InitCodec == Init /\ opt = Option(FALSE, 0, FALSE)
CallCodec ==
    \E t \in Threads :
      /\ th[t].calls < MaxCalls
      /\ \/ \E v \in CodecValues : Start(t, "marshal", Item("k", v))
         \/ /\ th[t].op = "marshal"
            /\ Start(t, "unmarshal", Item("k", th[t].out.val))
         \/ \E b \in ForeignBytes : Start(t, "unmarshal", Item("k", b))
NextCodec ==
    \/ CallCodec
    \/ \E t \in Threads : Marshal(t)
    \/ \E t \in Threads : Unmarshal(t)
SpecCodec == InitCodec /\ [][NextCodec]_vars

\* Two threads on a cache with both tiers, the remote store holding bytes
\* of another writer that do not decode: gets, sets and once calls of the key.
InitRetry ==
    /\ InitWith({1, 2})
    /\ opt = Option(TRUE, 0, FALSE)
    /\ \A k \in Keys : remote[k].val = Corrupt
CallRetry ==
    \E t \in Threads :
      /\ th[t].calls < RetryCalls
      /\ \E c \in RetryInputs : Start(t, c.op, c.item)
NextRetry ==
    \/ CallRetry
    \/ \E t \in Threads : SetLocal(t)
    \/ \E t \in Threads : SetRemote(t)
    \/ \E t \in Threads : GetLocal(t)
    \/ \E t \in Threads : GetRemote(t)
    \/ \E t \in Threads : GetMiss(t)
    \/ \E t \in Threads : GetMissStore(t)
    \/ \E t \in Threads : GetFill(t)
    \/ \E t \in Threads : DeleteLocal(t)
    \/ \E t \in Threads : DeleteRemote(t)
    \/ \E t \in Threads : OnceEnter(t)
SpecRetry == InitRetry /\ [][NextRetry]_vars

\* ------------------------------------------------------------------- claims

Finished(t, o) == th[t].pc = "done" /\ th[t].op = o

\* The call thread t made before the one in th[t].
Preceding(t) == hist[t][Len(hist[t])]

HasTier == opt.redis \/ opt.local_cache

\* Every thread has made one call, once(item), begun while the key was in
\* neither tier, and has returned from it; no remote method raised.
AllOnceOnMiss ==
    /\ HasTier
    /\ \A t \in Threads :
         /\ Finished(t, "once") /\ hist[t] = <<>>
         /\ ~th[t].l0 /\ ~th[t].r0 /\ th[t].fault = ""

Populators == {t \in Threads : th[t].runs > 0 /\ th[t].wrote > 0}

\* C1: when all threads call once for the same key, none finding it cached,
\* and every item has a producer, exactly one thread runs its producer and
\* writes to the tiers, and the others run no producer and write nothing.
C1_SingleFlight ==
    (AllOnceOnMiss /\ \A t \in Threads : th[t].arg.do # NoDo)
    => /\ Cardinality(Populators) = 1
       /\ \A t \in Threads \ Populators : th[t].runs = 0 /\ th[t].wrote = 0

\* C1 where the code does provide it: the remote tier alone is configured.
C1_RemoteOnly == (opt.redis /\ ~opt.local_cache) => C1_SingleFlight

C1_RemoteOnlyWitness ==
    /\ opt.redis /\ ~opt.local_cache /\ AllOnceOnMiss
    /\ \A t \in Threads : th[t].arg.do # NoDo

\* C2: when all threads call once for the same key, none finding it cached,
\* their items carrying values and no producer, then after all have returned
\* every item's value is the value of the one thread that wrote.
C2_WaitersSeeSameValue ==
    (AllOnceOnMiss /\ \A t \in Threads : th[t].arg.do = NoDo)
    => \E p \in Threads :
         /\ th[p].wrote > 0
         /\ \A t \in Threads : get_value(th[t].item) = get_value(th[p].arg)

C2_RemoteOnly == (opt.redis /\ ~opt.local_cache) => C2_WaitersSeeSameValue

C2_RemoteOnlyWitness ==
    /\ opt.redis /\ ~opt.local_cache /\ AllOnceOnMiss
    /\ \A t \in Threads : th[t].arg.do = NoDo

\* C3: once(Item(k, v1)) on a cache where k is absent, then once(Item(k, v2)),
\* no remote method raising: the second item's value is v1.
C3_OnceThenOnce ==
    \A t \in Threads :
      ( /\ HasTier
        /\ Finished(t, "once") /\ hist[t] # <<>> /\ th[t].fault = ""
        /\ Preceding(t).op = "once" /\ Preceding(t).fault = ""
        /\ ~Preceding(t).l0 /\ ~Preceding(t).r0
        /\ Preceding(t).arg.key = th[t].arg.key )
      => get_value(th[t].item) = get_value(Preceding(t).arg)

C3_RemoteOnly == (opt.redis /\ ~opt.local_cache) => C3_OnceThenOnce

\* The value the configured tiers hold for key k is v.
CachedIs(k, v) ==
    /\ opt.local_cache => local_get(local, k, clock).out.val = marshal(v)
    /\ opt.redis => remote[k].val = marshal(v)

\* C4: after a successful set(Item(k, v1)), once(Item(k, v2)) with v2 # v1
\* ends with the second item's value equal to v1, and v1 still cached for k.
C4_OnceReadsEntry ==
    \A t \in Threads :
      ( /\ Finished(t, "once") /\ hist[t] # <<>> /\ th[t].fault = ""
        /\ th[t].arg = Item(th[t].arg.key, th[t].arg.value)
        /\ Preceding(t).op = "set" /\ Preceding(t).out = Ret(PyTrue)
        /\ Preceding(t).arg = Item(th[t].arg.key, Preceding(t).arg.value)
        /\ Preceding(t).arg.value # th[t].arg.value )
      => /\ get_value(th[t].item) = Preceding(t).arg.value
         /\ CachedIs(th[t].arg.key, Preceding(t).arg.value)

\* C4 for a set that found no entry of the key in the local store.
C4_FreshKey ==
    \A t \in Threads : (hist[t] # <<>> /\ Preceding(t).l0) \/ C4_OnceReadsEntry

\* A set of a default item with a value (not None), of a key in neither
\* tier, with a tier configured and no remote method raising.
PlainSet(r) ==
    /\ r.op = "set" /\ r.pc = "done" /\ HasTier /\ r.fault = ""
    /\ ~r.l0 /\ ~r.r0
    /\ r.arg.value # None /\ r.arg = Item(r.arg.key, r.arg.value)

\* C5: set(Item(k, v)) of a key not written before returns success, and the
\* get(k) that follows it at once returns v.
C5_SetThenGet ==
    \A t \in Threads :
      /\ PlainSet(th[t]) => th[t].out = Ret(PyTrue)
      /\ ( /\ Finished(t, "get") /\ hist[t] # <<>> /\ th[t].fault = ""
           /\ ~th[t].arg.skip_local_cache
           /\ PlainSet(Preceding(t)) /\ Preceding(t).arg.key = th[t].arg.key
           /\ clock = Preceding(t).t0 )
         => th[t].out = Ret(Preceding(t).arg.value)

\* C5 for the values Python holds true.
C5_TruthyValues ==
    \A t \in Threads :
      \/ PlainSet(th[t]) /\ ~Truthy(th[t].arg.value)
      \/ hist[t] # <<>> /\ PlainSet(Preceding(t)) /\ ~Truthy(Preceding(t).arg.value)
      \/ C5_SetThenGet

\* C6: get(k) of a key in neither tier fails with CacheMissError, and so does
\* get(k, skip_local_cache=True) of a key in the local tier alone.
C6_MissSignaling ==
    \A t \in Threads :
      ( /\ Finished(t, "get") /\ HasTier /\ th[t].fault = ""
        /\ \/ ~th[t].l0 /\ ~th[t].r0
           \/ th[t].arg.skip_local_cache /\ th[t].l0 /\ ~th[t].r0 )
      => th[t].out.exc = "CacheMissError"

\* C6 where the code does provide it: no remote tier is configured.
C6_LocalOnly == ~opt.redis => C6_MissSignaling

NoTier == ~opt.redis /\ ~opt.local_cache

\* C7 as stated: with neither tier configured every set, get and delete
\* fails with RedisLocalCacheNoneError and leaves hits and misses as they were.
C7_Original ==
    \A t \in Threads :
      (NoTier /\ th[t].pc = "done" /\ th[t].op \in {"set", "get", "delete"})
      => /\ th[t].out.exc = "RedisLocalCacheNoneError"
         /\ hits = th[t].h0 /\ misses = th[t].m0

\* C7, amended: with neither tier configured every get and delete fails with
\* RedisLocalCacheNoneError; every set fails too, with ValueError when the
\* item's value reads as None (that check comes first) and with
\* RedisLocalCacheNoneError otherwise; hits and misses stay as they were.
C7_BothTiersAbsent ==
    \A t \in Threads :
      (NoTier /\ th[t].pc = "done" /\ th[t].op \in {"set", "get", "delete"})
      => /\ th[t].out.exc =
              IF th[t].op = "set" /\ get_value(th[t].arg) = None
              THEN "ValueError" ELSE "RedisLocalCacheNoneError"
         /\ hits = th[t].h0 /\ misses = th[t].m0

C7_Witness ==
    \E t \in Threads :
      /\ NoTier /\ Finished(t, "set") /\ hist[t] # <<>>
      /\ th[t].out.exc = "RedisLocalCacheNoneError"
      /\ Preceding(t).op = "get" /\ Preceding(t).out.exc = "RedisLocalCacheNoneError"

\* C8: set of an item whose value is None fails with ValueError having
\* called neither the local nor the remote tier, and Item(key, None) fails
\* with ValueError.
C8_NullWriteRejected ==
    \A t \in Threads :
      /\ (Finished(t, "set") /\ th[t].arg.value = None /\ th[t].arg.do = NoDo)
         => /\ th[t].out.exc = "ValueError"
            /\ th[t].ltouch = 0 /\ th[t].rtouch = 0
      /\ (Finished(t, "item") /\ th[t].arg.value = None)
         => th[t].out.exc = "ValueError"

\* A set of a None-valued item has failed, on a cache with both tiers, after
\* the constructor has refused None.
C8_Witness ==
    \E t \in Threads :
      /\ opt.redis /\ opt.local_cache
      /\ Finished(t, "set") /\ th[t].arg.value = None
      /\ th[t].out.exc = "ValueError"
      /\ hist[t] # <<>> /\ Preceding(t).op = "item"
      /\ Preceding(t).arg.value = None /\ Preceding(t).out.exc = "ValueError"

\* C9: in set, get and delete a NotImplementedError of the remote tier
\* reaches the caller as it is, and any other exception of the remote tier
\* reaches it as a RedisIfaceError.
C9_RemoteFailures ==
    \A t \in Threads :
      (th[t].pc = "done" /\ th[t].op \in {"set", "get", "delete"})
      => /\ th[t].fault = "notimpl" => th[t].out.exc = "NotImplementedError"
         /\ th[t].fault = "error" => th[t].out.exc = "RedisIfaceError"

\* C9 where the code does provide it: in set.
C9_InSet ==
    \A t \in Threads :
      Finished(t, "set")
      => /\ th[t].fault = "notimpl" => th[t].out.exc = "NotImplementedError"
         /\ th[t].fault = "error" => th[t].out.exc = "RedisIfaceError"

\* C10: once(item) returns normally, whatever the tiers hold, whatever the
\* remote tier does and whatever other threads do.
C10_OnceNeverRaises ==
    \A t \in Threads : Finished(t, "once") => th[t].out.exc = ""

\* C11: for every supported value v, unmarshal(marshal(v)) = v.
C11_CodecRoundTrip ==
    \A t \in Threads :
      ( /\ Finished(t, "unmarshal") /\ hist[t] # <<>>
        /\ Preceding(t).op = "marshal"
        /\ th[t].arg.value = Preceding(t).out.val )
      => th[t].out = Ret(Preceding(t).arg.value)

\* A list whose pickle was compressed has come back from unmarshal.
C11_Witness ==
    \E t \in Threads :
      /\ Finished(t, "unmarshal") /\ hist[t] # <<>>
      /\ Preceding(t).op = "marshal" /\ Preceding(t).arg.value = BigList
      /\ th[t].arg.value = Preceding(t).out.val
      /\ th[t].arg.value.v[Len(th[t].arg.value.v) - 1] = ZLIB_COMPRESSION
      /\ th[t].out = Ret(BigList)

\* A set that has written the key through the remote tier's plain set.
RemoteSetDone(t) ==
    /\ Finished(t, "set") /\ opt.redis /\ th[t].out = Ret(PyTrue)
    /\ set_func(th[t].arg) = "set"

\* C12: the ttl set hands the remote tier is the item's ttl when that is
\* positive and ONE_HOUR when it is zero or negative, so never zero or less.
C12_TtlNormalized ==
    \A t \in Threads :
      RemoteSetDone(t)
      => /\ remote[th[t].arg.key].ttl =
              IF th[t].arg.ttl > 0 THEN th[t].arg.ttl ELSE ONE_HOUR
         /\ remote[th[t].arg.key].ttl > 0

\* C12 for the item ttls that are not negative.
C12_NotNegative ==
    \A t \in Threads : (RemoteSetDone(t) /\ th[t].arg.ttl < 0) \/ C12_TtlNormalized

\* The get of a key, past the local tier, by a cache with the local tier
\* alone and a local ttl, after the set that wrote the key's local entry;
\* Elapsed is the time from that write to the read.
LocalReadAfterWrite(t) ==
    /\ Finished(t, "get") /\ ~opt.redis /\ opt.local_cache
    /\ opt.local_cache_ttl > 0 /\ ~th[t].arg.skip_local_cache
    /\ hist[t] # <<>>
    /\ Preceding(t).op = "set" /\ Preceding(t).out = Ret(PyTrue)
    /\ ~Preceding(t).l0 /\ Preceding(t).arg.key = th[t].arg.key

Elapsed(t) == th[t].lclock - Preceding(t).lclock

\* C13: with a local ttl > 0, a read n - w seconds after the entry's write
\* gets the payload only if n - w <= ttl; if n - w > ttl, a day or more
\* included, it gets nothing and the key leaves the local store.
C13_LocalExpiry ==
    \A t \in Threads :
      LocalReadAfterWrite(t)
      => /\ th[t].out.exc = "" => Elapsed(t) <= opt.local_cache_ttl
         /\ Elapsed(t) > opt.local_cache_ttl
              => /\ th[t].out.exc = "CacheMissError"
                 /\ local[th[t].arg.key] = None

\* C13 for reads less than a day after the write.
C13_WithinADay ==
    \A t \in Threads :
      (LocalReadAfterWrite(t) /\ Elapsed(t) >= SECONDS_PER_DAY) \/ C13_LocalExpiry

\* A delete that returned, or failed with CacheMissError.
DeleteEnded(r) ==
    /\ r.op = "delete" /\ r.pc = "done"
    /\ r.out = Ret(PyTrue) \/ r.out.exc = "CacheMissError"

\* What C14 says delete(k) answers: success with no remote tier; with one,
\* success when the remote reports a key removed (the key was in the remote
\* store) and CacheMissError when it reports none; whatever a remote method
\* that raises leaves.
DeleteAnswer(t) ==
    \/ ~opt.redis /\ th[t].out = Ret(PyTrue)
    \/ opt.redis /\ th[t].fault = "" /\ th[t].r0 /\ th[t].out = Ret(PyTrue)
    \/ opt.redis /\ th[t].fault = "" /\ ~th[t].r0
       /\ th[t].out.exc = "CacheMissError"
    \/ opt.redis /\ th[t].fault # ""

\* The get(k) after a delete(k) that returned or failed with CacheMissError
\* returns no value.
NoValueAfterDelete(t) ==
    ( /\ Finished(t, "get") /\ hist[t] # <<>>
      /\ DeleteEnded(Preceding(t)) /\ Preceding(t).arg.key = th[t].arg.key )
    => th[t].out.val = None

\* C14 as stated: delete(k) removes k from a configured local tier whatever
\* the remote tier does, answers as DeleteAnswer says, and the get(k) after
\* it returns no value.
C14_Original ==
    \A t \in Threads :
      /\ Finished(t, "delete")
         => /\ opt.local_cache => local[th[t].arg.key] = None
            /\ DeleteAnswer(t)
      /\ NoValueAfterDelete(t)

\* C14, amended: the same with a tier configured; with neither tier delete
\* fails with RedisLocalCacheNoneError.
C14_DeleteOutcome ==
    \A t \in Threads :
      /\ Finished(t, "delete")
         => /\ opt.local_cache => local[th[t].arg.key] = None
            /\ IF NoTier THEN th[t].out.exc = "RedisLocalCacheNoneError"
               ELSE DeleteAnswer(t)
      /\ NoValueAfterDelete(t)

\* On a cache with both tiers a set has cached a value, the delete of the
\* key has returned with the local entry gone, and the get after it has
\* returned no value.
C14_Witness ==
    \E t \in Threads :
      /\ opt.redis /\ opt.local_cache
      /\ Finished(t, "get") /\ Len(hist[t]) = 2
      /\ hist[t][1].op = "set" /\ hist[t][1].out = Ret(PyTrue)
      /\ hist[t][2].op = "delete" /\ hist[t][2].out = Ret(PyTrue)
      /\ hist[t][2].l0 /\ hist[t][2].r0
      /\ th[t].out.val = None

\* The payload of a local store entry e, without the stamp local_set put
\* behind it, and the time of that stamp.
EntryPayload(e) ==
    IF opt.local_cache_ttl = 0 THEN e ELSE PyBytes(SubSeq(e.v, 1, Len(e.v) - 4))

EntryTime(e) == decode_time(SubSeq(e.v, Len(e.v) - 3, Len(e.v)))

\* A get without skip_local_cache has ended, and when it read the local tier
\* that held an entry for the key whose ttl had not run out.
LocalHit(t) ==
    /\ Finished(t, "get") /\ ~th[t].arg.skip_local_cache
    /\ opt.local_cache /\ th[t].e0 # None
    /\ \/ opt.local_cache_ttl = 0
       \/ th[t].lclock - EntryTime(th[t].e0) <= opt.local_cache_ttl

\* C15: a get that finds an unexpired entry in the local tier returns the
\* entry's value, calls no remote method and leaves hits and misses as they
\* were.
C15_LocalHitIsSilent ==
    \A t \in Threads :
      LocalHit(t)
      => /\ th[t].out = unmarshal(EntryPayload(th[t].e0))
         /\ th[t].rtouch = 0
         /\ hits = th[t].h0 /\ misses = th[t].m0

\* A get was served by the remote tier, which has counted it and filled the
\* local tier, and the get after it was served by the local tier.
C15_Witness ==
    \E t \in Threads :
      /\ LocalHit(t) /\ opt.redis /\ opt.stats_enabled /\ hist[t] # <<>>
      /\ Preceding(t).op = "get" /\ Preceding(t).rvals = 1
      /\ ~Preceding(t).l0 /\ th[t].h0 = 1
      /\ th[t].rtouch = 0 /\ hits = 1

\* The remote gets, over the calls in the sequence h, that returned a value,
\* and those that returned None or raised.
RECURSIVE SumRvals(_)
SumRvals(h) == IF h = <<>> THEN 0 ELSE Head(h).rvals + SumRvals(Tail(h))

RECURSIVE SumRnone(_)
SumRnone(h) == IF h = <<>> THEN 0 ELSE Head(h).rnone + SumRnone(Tail(h))

RECURSIVE RemoteValuesOf(_)
RemoteValuesOf(T) ==
    IF T = {} THEN 0
    ELSE LET t == CHOOSE x \in T : TRUE
         IN SumRvals(hist[t]) + th[t].rvals + RemoteValuesOf(T \ {t})

RECURSIVE RemoteNonesOf(_)
RemoteNonesOf(T) ==
    IF T = {} THEN 0
    ELSE LET t == CHOOSE x \in T : TRUE
         IN SumRnone(hist[t]) + th[t].rnone + RemoteNonesOf(T \ {t})

RemoteValues == RemoteValuesOf(Threads)
RemoteNones == RemoteNonesOf(Threads)

Quiescent == \A t \in Threads : th[t].pc = "done"

\* C16: with stats enabled, when every call has ended, hits is the number of
\* remote gets that returned a value and misses the number of those that
\* returned None or raised (so no increment is lost, and set and delete
\* change neither counter); and the hits a stats() call has read is still
\* the value of hits when it reads misses, so that its pair is the pair of
\* that moment.
C16_StatsAccounting ==
    opt.stats_enabled
    => /\ Quiescent => (hits = RemoteValues /\ misses = RemoteNones)
       /\ \A t \in Threads : th[t].pc = "stats_misses" => th[t].tmp = hits

\* With stats enabled, the two threads' gets have both been counted, one as
\* a hit and one as a miss, and both have ended.
C16_Witness ==
    /\ opt.stats_enabled /\ Quiescent
    /\ \A t \in Threads : th[t].op = "get"
    /\ \E t \in Threads : th[t].rvals = 1
    /\ \E t \in Threads : th[t].rnone = 1
    /\ hits = 1 /\ misses = 1

\* A call of op with skip_local_cache=True has ended having made no call to
\* the local tier, the key's local entry being what it was.
SkipsLocal(t, ops) ==
    (th[t].pc = "done" /\ th[t].op \in ops /\ th[t].arg.skip_local_cache)
    => (th[t].ltouch = 0 /\ local[th[t].arg.key] = th[t].e0)

\* C17: with skip_local_cache=True, set(item) and once(item) neither read nor
\* write the local tier, and get(k, skip_local_cache=True) neither reads nor
\* fills it.
C17_SkipLocalCache == \A t \in Threads : SkipsLocal(t, {"set", "once", "get"})

\* C17 where the code does provide it: in get.
C17_InGet == \A t \in Threads : SkipsLocal(t, {"get"})

\* C18: a top-level once call re-enters once at most one time.
C18_RetryBounded == \A t \in Threads : th[t].depth <= 1

\* The set before the call that ended last in thread t's history.
Earlier(t) == hist[t][Len(hist[t]) - 1]

\* A set of a default item (the plain remote set), of a value that is not
\* None, that returned success.
GoodSet(r) ==
    /\ r.op = "set" /\ r.out = Ret(PyTrue)
    /\ r.arg = Item(r.arg.key, r.arg.value)

\* C19: after set(Item(k, v1)) and set(Item(k, v2)), v1 # v2, have both
\* returned success, get(k) returns v2.
C19_LastWriteWins ==
    \A t \in Threads :
      ( /\ HasTier /\ Finished(t, "get") /\ Len(hist[t]) >= 2
        /\ th[t].fault = "" /\ ~th[t].arg.skip_local_cache
        /\ GoodSet(Earlier(t)) /\ GoodSet(Preceding(t))
        /\ Earlier(t).arg.key = th[t].arg.key
        /\ Preceding(t).arg.key = th[t].arg.key
        /\ Earlier(t).arg.value # Preceding(t).arg.value )
      => th[t].out = Ret(Preceding(t).arg.value)

\* C19 where the code does provide it: the remote tier alone is configured.
C19_RemoteOnly == (opt.redis /\ ~opt.local_cache) => C19_LastWriteWins

\* A set on a cache with both tiers that failed because the remote method
\* raised.
FailedSet(r) ==
    /\ opt.redis /\ opt.local_cache
    /\ r.op = "set" /\ r.pc = "done" /\ r.fault # ""
    /\ r.out.exc \in {"RedisIfaceError", "NotImplementedError"}

\* C20: a set on a cache with both tiers that fails because the remote
\* method raises leaves the local entry of the key as it was, and the get of
\* the key after it does not return the value of that set.
C20_FailedSetChangesNothing ==
    \A t \in Threads :
      /\ FailedSet(th[t]) => local[th[t].arg.key] = th[t].e0
      /\ ( /\ Finished(t, "get") /\ hist[t] # <<>> /\ FailedSet(Preceding(t))
           /\ Preceding(t).arg.key = th[t].arg.key )
         => th[t].out # Ret(get_value(Preceding(t).arg))

\* C20 for a key the local tier held before the set.
C20_KeyAlreadyLocal ==
    \A t \in Threads :
      \/ FailedSet(th[t]) /\ ~th[t].l0
      \/ hist[t] # <<>> /\ FailedSet(Preceding(t)) /\ ~Preceding(t).l0
      \/ C20_FailedSetChangesNothing

====
